---------------------------- MODULE Spec2Model ----------------------------
(***************************************************************************)
(* Order management system: the OrderTracker business logic on top of the  *)
(* InMemoryStorage backend.                                                *)
(*                                                                         *)
(* A Python dict is modelled as a sequence of [key, value] entries in      *)
(* insertion order (the iteration order of a Python dict).  An order       *)
(* record is a TLA+ record (a function from field names to values).        *)
(* Python's None is the distinguished value None below; an exception is a  *)
(* record holding its type and the three parts of its message.             *)
(***************************************************************************)
EXTENDS Integers, Sequences, FiniteSets, TLC

VARIABLES
    orders,     \* InMemoryStorage._orders
    lastOp,     \* the last OrderTracker call: arguments, storage at entry,
                \* exception raised, value returned, storage methods called
    heap,       \* the dict objects in memory, by reference (used where object
                \* identity matters; empty where records are plain values)
    held,       \* the references a caller of the storage holds
    storage,    \* OrderTracker.storage: the storage object the Tracker was
                \* constructed with, as the attributes it offers (None while no
                \* Tracker is constructed)
    frames      \* the OrderTracker calls in progress where callers interleave:
                \* for each caller the method, its arguments, its position and
                \* its local variable order (empty where calls are atomic)

vars == <<orders, lastOp, heap, held, storage, frames>>

---------------------------------------------------------------------------
(* Bounds of the model *)

MaxOrderIds == 2

\* the order ids callers use
OrderIdPool == <<"ORD001", "ORD002", "ORD003", "ORD004">>
OrderIds    == {OrderIdPool[i] : i \in 1..MaxOrderIds}

\* the item_name, quantity and customer_id callers pass to add_order; the code
\* stores and returns these three values and never inspects them
PayloadPool ==
    << [item_name |-> "Laptop", quantity |-> 1, customer_id |-> "CUST001"],
       [item_name |-> "Phone",  quantity |-> 2, customer_id |-> "CUST002"] >>
Payloads    == {PayloadPool[i] : i \in DOMAIN PayloadPool}
ItemNames   == {p.item_name : p \in Payloads}
Quantities  == {p.quantity : p \in Payloads}
CustomerIds == {p.customer_id : p \in Payloads}

\* the status argument left out of an add_order call
Omitted == "<omitted>"

---------------------------------------------------------------------------
(* Python values *)

None == [None |-> TRUE]

EmptyDict == [k \in {} |-> None]

\* bool(v) of a value that is None or a dict
Truthy(v) == v # None /\ DOMAIN v # {}

\* d[k] = v on a dict of fields
item_set(d, k, v) == [f \in (DOMAIN d) \cup {k} |-> IF f = k THEN v ELSE d[f]]

\* d.copy()
copy(d) == [f \in DOMAIN d |-> d[f]]

\* the keys of an insertion-ordered dict
dict_keys(d) == {d[i].key : i \in 1..Len(d)}

dict_index(d, k) == CHOOSE i \in 1..Len(d) : d[i].key = k

\* d.get(k, default)
dict_get(d, k, default) ==
    IF k \in dict_keys(d) THEN d[dict_index(d, k)].value ELSE default

\* d[k] = v : an existing key keeps its position, a new key goes last
dict_set(d, k, v) ==
    IF k \in dict_keys(d)
    THEN [d EXCEPT ![dict_index(d, k)] = [key |-> k, value |-> v]]
    ELSE Append(d, [key |-> k, value |-> v])

\* del d[k]
dict_del(d, k) ==
    LET i == dict_index(d, k)
    IN  SubSeq(d, 1, i - 1) \o SubSeq(d, i + 1, Len(d))

\* list(d.values())
dict_values(d) == [i \in 1..Len(d) |-> d[i].value]

---------------------------------------------------------------------------
(* Exceptions *)

NoError == [type |-> "NoError", msg |-> <<"", "", "">>]

ValueError(prefix, value, suffix) ==
    [type |-> "ValueError", msg |-> <<prefix, value, suffix>>]

AlreadyExists(order_id) ==
    ValueError("Order with ID '", order_id, "' already exists.")

NotValidStatus(status) ==
    ValueError("Status '", status, "' is not a valid status.")

DoesNotExist(order_id) ==
    ValueError("Order with ID '", order_id, "' does not exist.")

---------------------------------------------------------------------------
(* InMemoryStorage *)

\* save_order that replaces the whole dict by the one entry
save_order_replace_all(o, order_id, order_data) ==
    <<[key |-> order_id, value |-> copy(order_data)]>>

\* save_order that keeps the record already stored under the id (setdefault)
save_order_setdefault(o, order_id, order_data) ==
    IF order_id \in dict_keys(o) THEN o ELSE dict_set(o, order_id, copy(order_data))

\* save_order that inserts a new key only for a pending record
save_order_insert_pending_only(o, order_id, order_data) ==
    IF order_id \notin dict_keys(o) /\ order_data.status # "pending"
    THEN o
    ELSE dict_set(o, order_id, copy(order_data))

save_order(o, order_id, order_data) == dict_set(o, order_id, copy(order_data))

get_order(o, order_id) ==
    IF Truthy(dict_get(o, order_id, None))
    THEN copy(dict_get(o, order_id, EmptyDict))
    ELSE None

get_all_orders(o) == [i \in 1..Len(o) |-> [key |-> o[i].key, value |-> copy(o[i].value)]]

\* delete_order with the membership test inverted
storage_delete_order_inverted(o, order_id) ==
    IF order_id \notin dict_keys(o) THEN dict_del(o, order_id) ELSE o

\* delete_order that drops the entry saved last, whatever the id
storage_delete_order_popitem(o, order_id) ==
    IF o # <<>> THEN SubSeq(o, 1, Len(o) - 1) ELSE o

storage_delete_order(o, order_id) ==
    IF order_id \in dict_keys(o) THEN dict_del(o, order_id) ELSE o

clear(o) == <<>>

\* the methods of a storage object the Tracker uses
StorageMethods == {"save_order", "get_order", "get_all_orders", "delete_order"}

\* an InMemoryStorage object seen from the Tracker: each method is callable
InMemoryStorage == [m \in StorageMethods |-> "callable"]

---------------------------------------------------------------------------
(* OrderTracker *)

valid_statuses == {"pending", "processing", "shipped"}

\* The outcome of a call: the storage after it, the exception raised (or
\* NoError), the value returned and the storage methods it called.
Outcome(o, raised, ret, calls) ==
    [orders |-> o, raised |-> raised, ret |-> ret, calls |-> calls]

\* add_order without the existence check
add_order_no_duplicate_check(o, order_id, item_name, quantity, customer_id, status_arg) ==
    LET status == IF status_arg = Omitted THEN "pending" ELSE status_arg
        order  == [order_id    |-> order_id,
                   item_name   |-> item_name,
                   quantity    |-> quantity,
                   customer_id |-> customer_id,
                   status      |-> status]
    IN  IF status \notin valid_statuses
        THEN Outcome(o, NotValidStatus(status), None, <<>>)
        ELSE Outcome(save_order(o, order_id, order), NoError, None, <<"save_order">>)

\* add_order without the status check
add_order_any_status(o, order_id, item_name, quantity, customer_id, status_arg) ==
    LET status == IF status_arg = Omitted THEN "pending" ELSE status_arg
        order  == [order_id    |-> order_id,
                   item_name   |-> item_name,
                   quantity    |-> quantity,
                   customer_id |-> customer_id,
                   status      |-> status]
    IN  IF Truthy(get_order(o, order_id))
        THEN Outcome(o, AlreadyExists(order_id), None, <<"get_order">>)
        ELSE Outcome(save_order(o, order_id, order), NoError, None,
                     <<"get_order", "save_order">>)

\* add_order that checks the status but always stores the default one
add_order_ignores_status(o, order_id, item_name, quantity, customer_id, status_arg) ==
    LET status == IF status_arg = Omitted THEN "pending" ELSE status_arg
        order  == [order_id    |-> order_id,
                   item_name   |-> item_name,
                   quantity    |-> quantity,
                   customer_id |-> customer_id,
                   status      |-> "pending"]
    IN  IF Truthy(get_order(o, order_id))
        THEN Outcome(o, AlreadyExists(order_id), None, <<"get_order">>)
        ELSE IF status \notin valid_statuses
        THEN Outcome(o, NotValidStatus(status), None, <<"get_order">>)
        ELSE Outcome(save_order(o, order_id, order), NoError, None,
                     <<"get_order", "save_order">>)

\* add_order that validates the status before it looks the order up
add_order_status_first(o, order_id, item_name, quantity, customer_id, status_arg) ==
    LET status == IF status_arg = Omitted THEN "pending" ELSE status_arg
        order  == [order_id    |-> order_id,
                   item_name   |-> item_name,
                   quantity    |-> quantity,
                   customer_id |-> customer_id,
                   status      |-> status]
    IN  IF status \notin valid_statuses
        THEN Outcome(o, NotValidStatus(status), None, <<>>)
        ELSE IF Truthy(get_order(o, order_id))
        THEN Outcome(o, AlreadyExists(order_id), None, <<"get_order">>)
        ELSE Outcome(save_order(o, order_id, order), NoError, None,
                     <<"get_order", "save_order">>)

\* add_order that files the record under the customer's id
add_order_keyed_by_customer(o, order_id, item_name, quantity, customer_id, status_arg) ==
    LET status == IF status_arg = Omitted THEN "pending" ELSE status_arg
        order  == [order_id    |-> order_id,
                   item_name   |-> item_name,
                   quantity    |-> quantity,
                   customer_id |-> customer_id,
                   status      |-> status]
    IN  IF Truthy(get_order(o, order_id))
        THEN Outcome(o, AlreadyExists(order_id), None, <<"get_order">>)
        ELSE IF status \notin valid_statuses
        THEN Outcome(o, NotValidStatus(status), None, <<"get_order">>)
        ELSE Outcome(save_order(o, customer_id, order), NoError, None,
                     <<"get_order", "save_order">>)

\* add_order whose status has no default: a call without a status is refused
add_order_no_default(o, order_id, item_name, quantity, customer_id, status_arg) ==
    LET order  == [order_id    |-> order_id,
                   item_name   |-> item_name,
                   quantity    |-> quantity,
                   customer_id |-> customer_id,
                   status      |-> status_arg]
    IN  IF Truthy(get_order(o, order_id))
        THEN Outcome(o, AlreadyExists(order_id), None, <<"get_order">>)
        ELSE IF status_arg \notin valid_statuses
        THEN Outcome(o, NotValidStatus(status_arg), None, <<"get_order">>)
        ELSE Outcome(save_order(o, order_id, order), NoError, None,
                     <<"get_order", "save_order">>)

add_order(o, order_id, item_name, quantity, customer_id, status_arg) ==
    LET status == IF status_arg = Omitted THEN "pending" ELSE status_arg
        order  == [order_id    |-> order_id,
                   item_name   |-> item_name,
                   quantity    |-> quantity,
                   customer_id |-> customer_id,
                   status      |-> status]
    IN  IF Truthy(get_order(o, order_id))
        THEN Outcome(o, AlreadyExists(order_id), None, <<"get_order">>)
        ELSE IF status \notin valid_statuses
        THEN Outcome(o, NotValidStatus(status), None, <<"get_order">>)
        ELSE Outcome(save_order(o, order_id, order), NoError, None,
                     <<"get_order", "save_order">>)

\* get_order_by_id that raises for an order that is not stored
get_order_by_id_raising(o, order_id) ==
    IF Truthy(get_order(o, order_id))
    THEN Outcome(o, NoError, get_order(o, order_id), <<"get_order">>)
    ELSE Outcome(o, DoesNotExist(order_id), None, <<"get_order">>)

get_order_by_id(o, order_id) ==
    Outcome(o, NoError, get_order(o, order_id), <<"get_order">>)

\* the position of a status in the life of an order
StatusRank(status) ==
    CASE status = "pending" -> 1 [] status = "processing" -> 2
      [] status = "shipped" -> 3 [] OTHER -> 0

\* update_order_status that only lets the status move forward
update_order_status_forward_only(o, order_id, new_status) ==
    LET order == get_order(o, order_id)
    IN  IF ~Truthy(order)
        THEN Outcome(o, DoesNotExist(order_id), None, <<"get_order">>)
        ELSE IF new_status \notin valid_statuses
                \/ StatusRank(new_status) < StatusRank(order["status"])
        THEN Outcome(o, NotValidStatus(new_status), None, <<"get_order">>)
        ELSE Outcome(save_order(o, order_id, item_set(order, "status", new_status)),
                     NoError, None, <<"get_order", "save_order">>)

\* update_order_status that saves a record holding only the id and the status
update_order_status_patch(o, order_id, new_status) ==
    LET order == get_order(o, order_id)
    IN  IF ~Truthy(order)
        THEN Outcome(o, DoesNotExist(order_id), None, <<"get_order">>)
        ELSE IF new_status \notin valid_statuses
        THEN Outcome(o, NotValidStatus(new_status), None, <<"get_order">>)
        ELSE Outcome(save_order(o, order_id,
                                [order_id |-> order_id, status |-> new_status]),
                     NoError, None, <<"get_order", "save_order">>)

\* update_order_status that saves the new status before it checks it
update_order_status_save_first(o, order_id, new_status) ==
    LET order == get_order(o, order_id)
    IN  IF ~Truthy(order)
        THEN Outcome(o, DoesNotExist(order_id), None, <<"get_order">>)
        ELSE IF new_status \notin valid_statuses
        THEN Outcome(save_order(o, order_id, item_set(order, "status", new_status)),
                     NotValidStatus(new_status), None, <<"get_order", "save_order">>)
        ELSE Outcome(save_order(o, order_id, item_set(order, "status", new_status)),
                     NoError, None, <<"get_order", "save_order">>)

\* update_order_status without the status check
update_order_status_unvalidated(o, order_id, new_status) ==
    LET order == get_order(o, order_id)
    IN  IF ~Truthy(order)
        THEN Outcome(o, DoesNotExist(order_id), None, <<"get_order">>)
        ELSE Outcome(save_order(o, order_id, item_set(order, "status", new_status)),
                     NoError, None, <<"get_order", "save_order">>)

\* update_order_status that checks the status before the existence
update_order_status_status_first(o, order_id, new_status) ==
    LET order == get_order(o, order_id)
    IN  IF new_status \notin valid_statuses
        THEN Outcome(o, NotValidStatus(new_status), None, <<"get_order">>)
        ELSE IF ~Truthy(order)
        THEN Outcome(o, DoesNotExist(order_id), None, <<"get_order">>)
        ELSE Outcome(save_order(o, order_id, item_set(order, "status", new_status)),
                     NoError, None, <<"get_order", "save_order">>)

update_order_status(o, order_id, new_status) ==
    LET order == get_order(o, order_id)
    IN  IF ~Truthy(order)
        THEN Outcome(o, DoesNotExist(order_id), None, <<"get_order">>)
        ELSE IF new_status \notin valid_statuses
        THEN Outcome(o, NotValidStatus(new_status), None, <<"get_order">>)
        ELSE Outcome(save_order(o, order_id, item_set(order, "status", new_status)),
                     NoError, None, <<"get_order", "save_order">>)

list_all_orders(o) ==
    Outcome(o, NoError, get_all_orders(o), <<"get_all_orders">>)

\* order.get("status") == status
status_matches(order, status) ==
    "status" \in DOMAIN order /\ order["status"] = status

\* list_orders_by_status without the filter
list_orders_by_status_unfiltered(o, status) ==
    LET all_orders == get_all_orders(o)
    IN  Outcome(o, NoError, dict_values(all_orders), <<"get_all_orders">>)

list_orders_by_status(o, status) ==
    LET all_orders == get_all_orders(o)
    IN  Outcome(o, NoError,
                SelectSeq(dict_values(all_orders),
                          LAMBDA order : status_matches(order, status)),
                <<"get_all_orders">>)

\* delete_order without the existence check
delete_order_unchecked(o, order_id) ==
    Outcome(storage_delete_order(o, order_id), NoError, None, <<"delete_order">>)

delete_order(o, order_id) ==
    LET order == get_order(o, order_id)
    IN  IF ~Truthy(order)
        THEN Outcome(o, DoesNotExist(order_id), None, <<"get_order">>)
        ELSE Outcome(storage_delete_order(o, order_id), NoError, None,
                     <<"get_order", "delete_order">>)

---------------------------------------------------------------------------
(* The state machine: one action per OrderTracker method *)

\* status values a caller may pass: the valid ones and some that are not
StatusInputs == valid_statuses \cup {"delivered"}

Call(op, args, r) ==
    /\ orders' = r.orders
    /\ lastOp' = [op |-> op, args |-> args, before |-> orders,
                  raised |-> r.raised, ret |-> r.ret, calls |-> r.calls]
    /\ UNCHANGED <<heap, held, storage, frames>>

Init ==
    /\ orders = <<>>
    /\ lastOp = [op |-> "init", args |-> <<>>, before |-> <<>>,
                 raised |-> NoError, ret |-> None, calls |-> <<>>]
    /\ heap = <<>>
    /\ held = {}
    /\ frames = <<>>
    /\ storage = InMemoryStorage

AddOrder ==
    \E order_id \in OrderIds, p \in Payloads, status \in StatusInputs \cup {Omitted} :
        Call("add_order",
             [order_id |-> order_id, item_name |-> p.item_name,
              quantity |-> p.quantity, customer_id |-> p.customer_id,
              status |-> status],
             add_order(orders, order_id, p.item_name, p.quantity, p.customer_id, status))

\* the ids a caller may look up: the order ids, the empty id and a blank one
LookupIds == OrderIds \cup {"", "   "}

GetOrderById ==
    \E order_id \in LookupIds :
        Call("get_order_by_id", [order_id |-> order_id],
             get_order_by_id(orders, order_id))

UpdateOrderStatus ==
    \E order_id \in OrderIds, new_status \in StatusInputs :
        Call("update_order_status",
             [order_id |-> order_id, new_status |-> new_status],
             update_order_status(orders, order_id, new_status))

ListAllOrders ==
    Call("list_all_orders", <<>>, list_all_orders(orders))

ListOrdersByStatus ==
    \E status \in StatusInputs :
        Call("list_orders_by_status", [status |-> status],
             list_orders_by_status(orders, status))

DeleteOrder ==
    \E order_id \in OrderIds :
        Call("delete_order", [order_id |-> order_id],
             delete_order(orders, order_id))

Next ==
    \/ AddOrder
    \/ GetOrderById
    \/ UpdateOrderStatus
    \/ ListAllOrders
    \/ ListOrdersByStatus
    \/ DeleteOrder

Spec == Init /\ [][Next]_vars

---------------------------------------------------------------------------
(* Vocabulary of the properties *)

\* the error kinds of the Tracker
DuplicateOrder(e) == e.type = "ValueError" /\ e.msg[3] = "' already exists."
InvalidStatus(e)  == e.type = "ValueError" /\ e.msg[3] = "' is not a valid status."
OrderNotFound(e)  == e.type = "ValueError" /\ e.msg[3] = "' does not exist."

Succeeded(op) == op.raised = NoError

\* a record is stored under order_id in storage content o
Stored(o, order_id) == order_id \in dict_keys(o)

\* the record stored under order_id in storage content o (None when absent)
Record(o, order_id) == dict_get(o, order_id, None)

\* the last call was method op on order_id
Called(op, order_id) == lastOp.op = op /\ lastOp.args.order_id = order_id

Mutators == {"add_order", "update_order_status", "delete_order"}

\* the status a call of add_order asks for
RequestedStatus(args) == IF args.status = Omitted THEN "pending" ELSE args.status

---------------------------------------------------------------------------
(* Properties *)

\* C1 Uniqueness: an add_order for an order_id that is stored (added and not
\* deleted since, whatever updates happened) fails with DuplicateOrder, whatever
\* its other arguments, and the record stored for that id is the same before
\* and after the failed call.
C1_Uniqueness ==
    \A id \in OrderIds :
        (Called("add_order", id) /\ Stored(lastOp.before, id)) =>
            /\ DuplicateOrder(lastOp.raised)
            /\ Record(orders, id) = Record(lastOp.before, id)

\* a second add_order with other fields and another status was refused for an
\* order whose status had moved on
C1_Witness ==
    /\ lastOp.op = "add_order"
    /\ DuplicateOrder(lastOp.raised)
    /\ Record(orders, lastOp.args.order_id).item_name # lastOp.args.item_name
    /\ Record(orders, lastOp.args.order_id).status = "shipped"
    /\ lastOp.args.status = "processing"

\* C2 Existence precondition: update_order_status and delete_order fail with
\* OrderNotFound exactly when no record is stored for the order_id; on a stored
\* order update_order_status never fails with OrderNotFound, whatever the status.
C2_ExistencePrecondition ==
    lastOp.op \in {"update_order_status", "delete_order"} =>
        (OrderNotFound(lastOp.raised) <=> ~Stored(lastOp.before, lastOp.args.order_id))

\* update_order_status with an invalid status on a stored order failed, and not
\* with OrderNotFound
C2_Witness ==
    /\ lastOp.op = "update_order_status"
    /\ Stored(lastOp.before, lastOp.args.order_id)
    /\ lastOp.args.new_status \notin valid_statuses
    /\ ~Succeeded(lastOp)
    /\ ~OrderNotFound(lastOp.raised)

\* C3 Status domain closure on create: add_order for an order_id that is not
\* stored succeeds iff the status is pending, processing or shipped (or is
\* omitted); with any other status it fails with InvalidStatus and stores
\* nothing for that id; with the status omitted the stored status is pending.
C3_StatusClosureOnCreate ==
    \A id \in OrderIds :
        (Called("add_order", id) /\ ~Stored(lastOp.before, id)) =>
            /\ Succeeded(lastOp) <=> lastOp.args.status \in valid_statuses \cup {Omitted}
            /\ Succeeded(lastOp) => Stored(orders, id)
            /\ lastOp.args.status \notin valid_statuses \cup {Omitted} =>
                   InvalidStatus(lastOp.raised) /\ ~Stored(orders, id)
            /\ lastOp.args.status = Omitted => Record(orders, id).status = "pending"

\* an add_order with a status outside the set was refused for a fresh order_id
\* while another order was stored
C3_Witness ==
    /\ lastOp.op = "add_order"
    /\ ~Stored(lastOp.before, lastOp.args.order_id)
    /\ lastOp.args.status = "delivered"
    /\ InvalidStatus(lastOp.raised)
    /\ Len(orders) = 1

\* C4 Status domain closure on update: update_order_status on a stored order
\* succeeds iff the new status is pending, processing or shipped, whatever the
\* current status (backwards moves and same-status updates included), and fails
\* with InvalidStatus for any other value.
C4_StatusClosureOnUpdate ==
    \A id \in OrderIds :
        (Called("update_order_status", id) /\ Stored(lastOp.before, id)) =>
            /\ Succeeded(lastOp) <=> lastOp.args.new_status \in valid_statuses
            /\ lastOp.args.new_status \notin valid_statuses => InvalidStatus(lastOp.raised)

\* a shipped order was moved back to pending
C4_Witness ==
    /\ lastOp.op = "update_order_status"
    /\ Succeeded(lastOp)
    /\ Record(lastOp.before, lastOp.args.order_id).status = "shipped"
    /\ lastOp.args.new_status = "pending"
    /\ Record(orders, lastOp.args.order_id).status = "pending"

\* the four fields update_order_status must not touch
FixedFields == {"order_id", "item_name", "quantity", "customer_id"}

\* C5 Field immutability: after a successful update_order_status(order_id, s)
\* the stored record has status s and the same order_id, item_name, quantity and
\* customer_id as before; and no call at all changes these four fields of an
\* order that is stored before and after it.
C5_FieldImmutability ==
    /\ \A id \in OrderIds :
        (Called("update_order_status", id) /\ Succeeded(lastOp)) =>
            /\ Stored(orders, id)
            /\ DOMAIN Record(orders, id) = FixedFields \cup {"status"}
            /\ Record(orders, id).status = lastOp.args.new_status
            /\ \A f \in FixedFields : Record(orders, id)[f] = Record(lastOp.before, id)[f]
    /\ \A id \in OrderIds :
        (Stored(lastOp.before, id) /\ Stored(orders, id)) =>
            /\ FixedFields \subseteq DOMAIN Record(orders, id)
            /\ \A f \in FixedFields : Record(orders, id)[f] = Record(lastOp.before, id)[f]

\* a status update that changed the status went through
C5_Witness ==
    /\ lastOp.op = "update_order_status"
    /\ Succeeded(lastOp)
    /\ Record(lastOp.before, lastOp.args.order_id).status = "pending"
    /\ Record(orders, lastOp.args.order_id).status = "shipped"
    /\ Record(orders, lastOp.args.order_id).quantity = 2

\* C6 Round trip: right after a successful add_order, get_order_by_id of the
\* same order_id returns a record whose five fields are those of the call, the
\* status being pending when the call omitted it.
C6_RoundTrip ==
    (lastOp.op = "add_order" /\ Succeeded(lastOp)) =>
        LET got == get_order_by_id(orders, lastOp.args.order_id)
        IN  /\ Succeeded(got)
            /\ got.ret = [order_id    |-> lastOp.args.order_id,
                          item_name   |-> lastOp.args.item_name,
                          quantity    |-> lastOp.args.quantity,
                          customer_id |-> lastOp.args.customer_id,
                          status      |-> RequestedStatus(lastOp.args)]

\* an order was added with an explicit status other than the default, next to
\* an order that was there already
C6_Witness ==
    /\ lastOp.op = "add_order"
    /\ Succeeded(lastOp)
    /\ lastOp.args.status = "shipped"
    /\ Len(lastOp.before) = 1
    /\ Len(orders) = 2

\* the elements of a sequence
Range(seq) == {seq[i] : i \in 1..Len(seq)}

\* values a caller may filter by: the valid statuses and some that are not
FilterInputs == StatusInputs \cup {"", "PENDING"}

\* C7 Filter correctness: list_orders_by_status(s) never fails and holds exactly
\* the records of list_all_orders() whose status is s, each once and no others;
\* it is empty when no stored order has status s, also for an s outside the
\* valid statuses.
C7_FilterCorrectness ==
    \A s \in FilterInputs :
        LET listed  == list_orders_by_status(orders, s)
            all     == list_all_orders(orders).ret
            matches == {i \in 1..Len(all) : all[i].value.status = s}
        IN  /\ Succeeded(listed)
            /\ Range(listed.ret) = {all[i].value : i \in matches}
            /\ Len(listed.ret) = Cardinality(matches)
            /\ (matches = {}) => listed.ret = <<>>

\* a filtered listing returned one of two stored orders
C7_Witness ==
    /\ lastOp.op = "list_orders_by_status"
    /\ Len(orders) = 2
    /\ Len(lastOp.ret) = 1
    /\ lastOp.ret[1].status = lastOp.args.status
    /\ lastOp.ret[1].order_id = orders[2].key

\* no trace of order_id is left in storage content o, as the Tracker shows it
Gone(o, order_id) ==
    /\ get_order_by_id(o, order_id).ret = None
    /\ \A i \in 1..Len(list_all_orders(o).ret) :
           /\ list_all_orders(o).ret[i].key # order_id
           /\ list_all_orders(o).ret[i].value.order_id # order_id
    /\ \A s \in FilterInputs : \A r \in Range(list_orders_by_status(o, s).ret) :
           r.order_id # order_id
    /\ OrderNotFound(delete_order(o, order_id).raised)
    /\ \A s \in StatusInputs : OrderNotFound(update_order_status(o, order_id, s).raised)

\* C8 Delete finality: after a successful delete_order(order_id) the order is
\* gone (get_order_by_id returns None, no listing shows it, delete_order and
\* update_order_status fail with OrderNotFound), and it stays gone over every
\* call that is not a successful add_order of that order_id.
C8_DeleteFinality ==
    \A id \in OrderIds :
        /\ (Called("delete_order", id) /\ Succeeded(lastOp)) => Gone(orders, id)
        /\ (Gone(lastOp.before, id) /\ ~(Called("add_order", id) /\ Succeeded(lastOp)))
               => Gone(orders, id)

\* an order was deleted while another one stayed
C8_Witness ==
    /\ lastOp.op = "delete_order"
    /\ Succeeded(lastOp)
    /\ Len(lastOp.before) = 2
    /\ lastOp.before[1].key = lastOp.args.order_id
    /\ Len(orders) = 1

\* C9 No partial mutation: a failing add_order, update_order_status or
\* delete_order leaves the whole storage content as it was and calls neither
\* save_order nor delete_order of the storage.
C9_NoPartialMutation ==
    (lastOp.op \in Mutators /\ ~Succeeded(lastOp)) =>
        /\ DuplicateOrder(lastOp.raised) \/ InvalidStatus(lastOp.raised)
               \/ OrderNotFound(lastOp.raised)
        /\ orders = lastOp.before
        /\ Range(lastOp.calls) \cap {"save_order", "delete_order"} = {}

\* an update with an invalid status failed on a stored order
C9_Witness ==
    /\ lastOp.op = "update_order_status"
    /\ InvalidStatus(lastOp.raised)
    /\ Stored(orders, lastOp.args.order_id)
    /\ Len(orders) = 2

\* C10 Status invariant: the status of every stored order is pending,
\* processing or shipped.
C10_StatusInvariant ==
    \A i \in 1..Len(orders) :
        /\ "status" \in DOMAIN orders[i].value
        /\ orders[i].value.status \in valid_statuses

\* a status update went through after calls with invalid statuses could have
\* been made, with two orders of different statuses stored
C10_Witness ==
    /\ lastOp.op = "update_order_status"
    /\ Succeeded(lastOp)
    /\ Len(orders) = 2
    /\ orders[1].value.status = "shipped"
    /\ orders[2].value.status = "processing"

TypeOK ==
    /\ orders \in Seq([key : OrderIds, value : [order_id : OrderIds, item_name : ItemNames,
                        quantity : Quantities, customer_id : CustomerIds,
                        status : valid_statuses]])
    /\ lastOp.op \in {"init", "add_order", "get_order_by_id", "update_order_status",
                      "list_all_orders", "list_orders_by_status", "delete_order"}

\* C11 Order of checks in update_order_status: with an order_id that is not
\* stored and a status outside the valid ones the call fails with
\* OrderNotFound, not InvalidStatus; InvalidStatus is raised only for a stored
\* order.
C11_UpdateCheckOrder ==
    lastOp.op = "update_order_status" =>
        /\ (~Stored(lastOp.before, lastOp.args.order_id)
              /\ lastOp.args.new_status \notin valid_statuses)
               => (OrderNotFound(lastOp.raised) /\ ~InvalidStatus(lastOp.raised))
        /\ InvalidStatus(lastOp.raised) => Stored(lastOp.before, lastOp.args.order_id)

\* an update with an invalid status was refused with OrderNotFound for an id
\* that is not stored, next to a stored order
C11_Witness ==
    /\ lastOp.op = "update_order_status"
    /\ ~Stored(lastOp.before, lastOp.args.order_id)
    /\ lastOp.args.new_status = "delivered"
    /\ OrderNotFound(lastOp.raised)
    /\ Len(orders) = 1

Readers == {"get_order_by_id", "list_all_orders", "list_orders_by_status"}

\* C12 Reads are pure: get_order_by_id, list_all_orders and
\* list_orders_by_status never fail and leave the storage content as it was
\* (they call neither save_order nor delete_order); get_order_by_id returns None
\* exactly when no record is stored for the id, also for an empty or blank id,
\* and the stored record otherwise.
C12_ReadsArePure ==
    /\ lastOp.op \in Readers =>
        /\ Succeeded(lastOp)
        /\ orders = lastOp.before
        /\ Range(lastOp.calls) \cap {"save_order", "delete_order"} = {}
    /\ lastOp.op = "get_order_by_id" =>
        /\ lastOp.ret = None <=> ~Stored(lastOp.before, lastOp.args.order_id)
        /\ Stored(lastOp.before, lastOp.args.order_id)
               => lastOp.ret = Record(lastOp.before, lastOp.args.order_id)

\* a blank id was looked up while orders were stored, and None came back
C12_Witness ==
    /\ lastOp.op = "get_order_by_id"
    /\ lastOp.args.order_id = "   "
    /\ lastOp.ret = None
    /\ Succeeded(lastOp)
    /\ Len(orders) = 2

---------------------------------------------------------------------------
(* The storage backend on its own: one action per InMemoryStorage method,   *)
(* called with any record, not only those the OrderTracker builds.          *)

\* records a caller may hand to save_order: complete orders, a record with a
\* single field and the record with no fields
StorageRecords ==
    {EmptyDict, [status |-> "pending"]}
        \cup {[order_id |-> id, item_name |-> p.item_name, quantity |-> p.quantity,
               customer_id |-> p.customer_id, status |-> "shipped"] :
                  id \in OrderIds, p \in Payloads}

StorageInit == Init

StorageSaveOrder ==
    \E order_id \in OrderIds, order_data \in StorageRecords :
        Call("storage.save_order", [order_id |-> order_id, order_data |-> order_data],
             Outcome(save_order(orders, order_id, order_data), NoError, None, <<>>))

StorageGetOrder ==
    \E order_id \in OrderIds :
        Call("storage.get_order", [order_id |-> order_id],
             Outcome(orders, NoError, get_order(orders, order_id), <<>>))

StorageGetAllOrders ==
    Call("storage.get_all_orders", <<>>,
         Outcome(orders, NoError, get_all_orders(orders), <<>>))

StorageDeleteOrder ==
    \E order_id \in OrderIds :
        Call("storage.delete_order", [order_id |-> order_id],
             Outcome(storage_delete_order(orders, order_id), NoError, None, <<>>))

StorageClear ==
    Call("storage.clear", <<>>, Outcome(clear(orders), NoError, None, <<>>))

StorageNext ==
    \/ StorageSaveOrder
    \/ StorageGetOrder
    \/ StorageGetAllOrders
    \/ StorageDeleteOrder
    \/ StorageClear

SpecStorage == StorageInit /\ [][StorageNext]_vars

\* C13 Storage save/get contract: after save_order(order_id, r), whatever r is
\* (the record with no fields included), get_order(order_id) returns a record
\* equal to the r saved last, until a delete_order or clear; get_order returns
\* None only when no record is stored for the id; a save_order for an id that
\* is stored replaces the record and keeps the number of stored ids.
C13_StorageSaveGet ==
    /\ \A id \in OrderIds :
        /\ Stored(orders, id) => get_order(orders, id) = Record(orders, id)
        /\ get_order(orders, id) = None => ~Stored(orders, id)
    /\ lastOp.op = "storage.save_order" =>
        /\ get_order(orders, lastOp.args.order_id) = lastOp.args.order_data
        /\ Stored(lastOp.before, lastOp.args.order_id) => Len(orders) = Len(lastOp.before)
    /\ lastOp.op = "storage.get_order" =>
        lastOp.ret = get_order(orders, lastOp.args.order_id)

\* C15 Storage delete_order(order_id) removes the record of order_id when one
\* is stored and changes nothing when none is stored, raising no error; the
\* records of all other ids are as before.
C15_StorageDelete ==
    lastOp.op = "storage.delete_order" =>
        /\ Succeeded(lastOp)
        /\ ~Stored(orders, lastOp.args.order_id)
        /\ ~Stored(lastOp.before, lastOp.args.order_id) => orders = lastOp.before
        /\ \A id \in OrderIds \ {lastOp.args.order_id} :
               /\ Stored(orders, id) <=> Stored(lastOp.before, id)
               /\ Record(orders, id) = Record(lastOp.before, id)
        /\ Len(orders) = Len(lastOp.before)
                            - (IF Stored(lastOp.before, lastOp.args.order_id) THEN 1 ELSE 0)

\* delete_order was called for an id that is not stored while another order,
\* saved after an earlier one was deleted, was stored
C15_Witness ==
    /\ lastOp.op = "storage.delete_order"
    /\ ~Stored(lastOp.before, lastOp.args.order_id)
    /\ Len(orders) = 1
    /\ orders[1].value # EmptyDict

---------------------------------------------------------------------------
(* The storage backend with object identity: a dict is an object of the     *)
(* heap, _orders maps an order id to a reference, and the caller keeps the   *)
(* references it built or was handed and may assign to their fields.         *)

MaxObjects == 4

\* the value-level content of the storage: what _orders holds, dereferenced
View(o, h) == [i \in 1..Len(o) |-> [key |-> o[i].key, value |-> h[o[i].value]]]

\* save_order that stores the caller's object itself
save_order_ref_no_copy(h, o, order_id, ref) ==
    [heap |-> h, orders |-> dict_set(o, order_id, ref)]

\* self._orders[order_id] = order_data.copy()
save_order_ref(h, o, order_id, ref) ==
    [heap |-> Append(h, copy(h[ref])), orders |-> dict_set(o, order_id, Len(h) + 1)]

\* the reference 0 stands for None
get_order_ref(h, o, order_id) ==
    IF order_id \in dict_keys(o) /\ Truthy(h[dict_get(o, order_id, 0)])
    THEN [heap |-> Append(h, copy(h[dict_get(o, order_id, 0)])), ret |-> Len(h) + 1]
    ELSE [heap |-> h, ret |-> 0]

\* {k: v.copy() for k, v in self._orders.items()}
get_all_orders_ref(h, o) ==
    [heap |-> h \o [i \in 1..Len(o) |-> copy(h[o[i].value])],
     ret  |-> [i \in 1..Len(o) |-> [key |-> o[i].key, value |-> Len(h) + i]]]

\* the order ids used where object identity is followed
AliasIds == {OrderIdPool[1]}

\* the records a caller builds
AliasRecords ==
    {[order_id |-> id, item_name |-> PayloadPool[1].item_name,
      quantity |-> PayloadPool[1].quantity, customer_id |-> PayloadPool[1].customer_id,
      status |-> "pending"] : id \in AliasIds}

\* the field assignments a caller makes on a record it holds
Assignments == {<<"status", "shipped">>, <<"item_name", "Changed">>}

AliasStep(op, args, h, o, ret, hd) ==
    /\ heap' = h
    /\ orders' = o
    /\ held' = hd
    /\ UNCHANGED <<storage, frames>>
    /\ lastOp' = [op |-> op, args |-> args, before |-> View(orders, heap),
                  raised |-> NoError, ret |-> ret, calls |-> <<>>]

AliasInit == Init

\* the caller builds a record
AliasNew ==
    /\ Len(heap) < MaxObjects
    /\ \E r \in AliasRecords :
        AliasStep("new", [record |-> r], Append(heap, r), orders, Len(heap) + 1,
                  held \cup {[ref |-> Len(heap) + 1, origin |-> "caller", saved |-> FALSE]})

\* the caller saves a record it holds
AliasSaveOrder ==
    /\ Len(heap) < MaxObjects
    /\ \E order_id \in AliasIds, c \in held :
        LET r == save_order_ref(heap, orders, order_id, c.ref)
        IN  AliasStep("save_order", [order_id |-> order_id, ref |-> c.ref],
                      r.heap, r.orders, None,
                      (held \ {c}) \cup {[c EXCEPT !.saved = TRUE]})

\* the caller fetches a record and keeps what it is handed
AliasGetOrder ==
    /\ Len(heap) < MaxObjects
    /\ \E order_id \in AliasIds :
        LET r == get_order_ref(heap, orders, order_id)
        IN  AliasStep("get_order", [order_id |-> order_id], r.heap, orders, r.ret,
                      IF r.ret = 0 THEN held
                      ELSE held \cup {[ref |-> r.ret, origin |-> "get_order",
                                       saved |-> FALSE]})

\* the caller fetches all records and keeps what it is handed
AliasGetAllOrders ==
    /\ orders # <<>>
    /\ Len(heap) + Len(orders) <= MaxObjects
    /\ LET r == get_all_orders_ref(heap, orders)
       IN  AliasStep("get_all_orders", <<>>, r.heap, orders, r.ret,
                     held \cup {[ref |-> r.ret[i].value, origin |-> "get_all_orders",
                                 saved |-> FALSE] : i \in 1..Len(r.ret)})

\* the caller assigns to a field of a record it holds (as update_order_status
\* does with order["status"] = new_status on the record it fetched)
AliasAssign ==
    \E c \in held, a \in Assignments :
        AliasStep("assign", [ref |-> c.ref, origin |-> c.origin, saved |-> c.saved,
                             field |-> a[1], value |-> a[2]],
                  [heap EXCEPT ![c.ref] = item_set(heap[c.ref], a[1], a[2])],
                  orders, None, held)

AliasNext ==
    \/ AliasNew
    \/ AliasSaveOrder
    \/ AliasGetOrder
    \/ AliasGetAllOrders
    \/ AliasAssign

SpecAlias == AliasInit /\ [][AliasNext]_vars

\* C14 Copy isolation: assigning to a field of a record that was passed to
\* save_order, or of a record returned by get_order or get_all_orders, changes
\* nothing of what get_order and get_all_orders return afterwards; the change
\* update_order_status makes to the record it fetched reaches the storage only
\* with its save_order call, which stores the record as it is then.
C14_CopyIsolation ==
    /\ lastOp.op = "assign" =>
        /\ \A id \in AliasIds :
               get_order(View(orders, heap), id) = get_order(lastOp.before, id)
        /\ get_all_orders(View(orders, heap)) = get_all_orders(lastOp.before)
    /\ lastOp.op = "save_order" =>
        get_order(View(orders, heap), lastOp.args.order_id) = heap[lastOp.args.ref]
    /\ \A c \in held : \A i \in 1..Len(orders) : orders[i].value # c.ref

\* the status of a fetched record was changed while the storage still showed
\* the old status for that order
C14_Witness ==
    /\ lastOp.op = "assign"
    /\ lastOp.args.origin = "get_order"
    /\ lastOp.args.field = "status"
    /\ heap[lastOp.args.ref].status = "shipped"
    /\ \E i \in 1..Len(orders) :
        /\ orders[i].key = heap[lastOp.args.ref].order_id
        /\ heap[orders[i].value].status = "pending"

---------------------------------------------------------------------------
(* The Flask request handlers of app.py on top of the OrderTracker *)

\* A text as the sequence of its words; the texts of the exception messages
\* and of the status values callers send.
Words(text) ==
    CASE text = "Order with ID '"           -> <<"Order", "with", "ID", "'">>
      [] text = "' already exists."         -> <<"'", "already", "exists", ".">>
      [] text = "' does not exist."         -> <<"'", "does", "not", "exist", ".">>
      [] text = "Status '"                  -> <<"Status", "'">>
      [] text = "' is not a valid status."  -> <<"'", "is", "not", "a", "valid", "status", ".">>
      [] text = "does not exist"            -> <<"does", "not", "exist">>
      [] text = ""                          -> <<>>
      [] OTHER                              -> <<text>>

\* str(e) of an exception
str(e) == Words(e.msg[1]) \o Words(e.msg[2]) \o Words(e.msg[3])

\* phrase in text
Contains(text, phrase) ==
    \E i \in 0..(Len(text) - Len(phrase)) : SubSeq(text, i + 1, i + Len(phrase)) = phrase

\* a response: the storage after the request, the HTTP status and the body
Response(o, code, body) == [orders |-> o, code |-> code, body |-> body]

required_fields == {"order_id", "item_name", "quantity", "customer_id"}

\* request.get_json().get(k, default)
json_get(json, k, default) == IF k \in DOMAIN json THEN json[k] ELSE default

\* add_order_api that answers 400 when the Tracker refuses the order
add_order_api_bad_request(o, is_json, order_json) ==
    IF ~is_json THEN Response(o, 415, "Content-Type must be application/json")
    ELSE IF required_fields \ DOMAIN order_json # {}
    THEN Response(o, 400, "Missing required fields")
    ELSE LET r == add_order(o, order_json["order_id"], order_json["item_name"],
                            order_json["quantity"], order_json["customer_id"],
                            json_get(order_json, "status", "pending"))
         IN  IF r.raised.type = "ValueError"
             THEN Response(r.orders, 400, str(r.raised))
             ELSE Response(r.orders, 201,
                           get_order_by_id(r.orders, order_json["order_id"]).ret)

add_order_api(o, is_json, order_json) ==
    IF ~is_json THEN Response(o, 415, "Content-Type must be application/json")
    ELSE IF required_fields \ DOMAIN order_json # {}
    THEN Response(o, 400, "Missing required fields")
    ELSE LET r == add_order(o, order_json["order_id"], order_json["item_name"],
                            order_json["quantity"], order_json["customer_id"],
                            json_get(order_json, "status", "pending"))
         IN  IF r.raised.type = "ValueError"
             THEN Response(r.orders, 409, str(r.raised))
             ELSE Response(r.orders, 201,
                           get_order_by_id(r.orders, order_json["order_id"]).ret)

\* get_order_api that answers 200 with an empty body for an unknown order
get_order_api_always_200(o, order_id) ==
    Response(o, 200, get_order_by_id(o, order_id).ret)

get_order_api(o, order_id) ==
    LET order == get_order_by_id(o, order_id).ret
    IN  IF ~Truthy(order)
        THEN Response(o, 404, <<"Order with ID '", order_id, "' not found.">>)
        ELSE Response(o, 200, order)

update_order_status_api(o, order_id, is_json, order_json) ==
    IF ~is_json THEN Response(o, 415, "Content-Type must be application/json")
    ELSE IF "new_status" \notin DOMAIN order_json
    THEN Response(o, 400, "Missing required field: new_status")
    ELSE LET r == update_order_status(o, order_id, order_json["new_status"])
         IN  IF r.raised.type = "ValueError"
             THEN IF Contains(str(r.raised), Words("does not exist"))
                  THEN Response(r.orders, 404, str(r.raised))
                  ELSE Response(r.orders, 400, str(r.raised))
             ELSE Response(r.orders, 200, get_order_by_id(r.orders, order_id).ret)

\* request.args.get("status") is falsy when the query has no status (Omitted)
\* or an empty one
list_orders_api(o, status_filter) ==
    IF status_filter # Omitted /\ status_filter # ""
    THEN Response(o, 200, list_orders_by_status(o, status_filter).ret)
    ELSE Response(o, 200, list_all_orders(o).ret)

delete_order_api(o, order_id) ==
    LET r == delete_order(o, order_id)
    IN  IF r.raised.type = "ValueError"
        THEN Response(r.orders, 404, str(r.raised))
        ELSE Response(r.orders, 204, "")

\* the JSON bodies of create requests: every payload with a status or without
\* one, and bodies that lack required fields
CreateBodies ==
    {[order_id |-> id, item_name |-> p.item_name, quantity |-> p.quantity,
      customer_id |-> p.customer_id, status |-> s] :
         id \in OrderIds, p \in Payloads, s \in StatusInputs}
    \cup {[order_id |-> id, item_name |-> p.item_name, quantity |-> p.quantity,
           customer_id |-> p.customer_id] : id \in OrderIds, p \in Payloads}
    \cup {[f \in required_fields \ {g} |->
               IF f = "order_id" THEN OrderIdPool[1] ELSE PayloadPool[1][f]] :
             g \in required_fields}
    \cup {[item_name |-> PayloadPool[1].item_name, status |-> "pending"], EmptyDict}

\* the JSON bodies of status updates
UpdateBodies ==
    {[new_status |-> s] : s \in StatusInputs \cup {"does not exist"}}
        \cup {[status |-> "shipped"], EmptyDict}

ApiStep(op, args, r) ==
    /\ orders' = r.orders
    /\ lastOp' = [op |-> op, args |-> args, before |-> orders,
                  code |-> r.code, body |-> r.body]
    /\ UNCHANGED <<heap, held, storage, frames>>

ApiInit ==
    /\ orders = <<>>
    /\ lastOp = [op |-> "init", args |-> <<>>, before |-> <<>>, code |-> 0, body |-> ""]
    /\ heap = <<>>
    /\ held = {}
    /\ frames = <<>>
    /\ storage = InMemoryStorage

ApiAddOrder ==
    \E is_json \in BOOLEAN, order_json \in CreateBodies :
        /\ is_json \/ order_json = EmptyDict
        /\ ApiStep("add_order_api", [is_json |-> is_json, json |-> order_json],
                   add_order_api(orders, is_json, order_json))

ApiGetOrder ==
    \E order_id \in OrderIds :
        ApiStep("get_order_api", [order_id |-> order_id], get_order_api(orders, order_id))

ApiUpdateOrderStatus ==
    \E order_id \in OrderIds, is_json \in BOOLEAN, order_json \in UpdateBodies :
        /\ is_json \/ order_json = EmptyDict
        /\ ApiStep("update_order_status_api",
                   [order_id |-> order_id, is_json |-> is_json, json |-> order_json],
                   update_order_status_api(orders, order_id, is_json, order_json))

ApiListOrders ==
    \E status_filter \in StatusInputs \cup {Omitted, ""} :
        ApiStep("list_orders_api", [status |-> status_filter],
                list_orders_api(orders, status_filter))

ApiDeleteOrder ==
    \E order_id \in OrderIds :
        ApiStep("delete_order_api", [order_id |-> order_id],
                delete_order_api(orders, order_id))

ApiNext ==
    \/ ApiAddOrder
    \/ ApiGetOrder
    \/ ApiUpdateOrderStatus
    \/ ApiListOrders
    \/ ApiDeleteOrder

SpecApi == ApiInit /\ [][ApiNext]_vars

\* a create request that came with a JSON body holding all required fields
CompleteCreate ==
    /\ lastOp.op = "add_order_api"
    /\ lastOp.args.is_json
    /\ required_fields \subseteq DOMAIN lastOp.args.json

\* a create request that came with a JSON body lacking a required field
IncompleteCreate ==
    /\ lastOp.op = "add_order_api"
    /\ lastOp.args.is_json
    /\ ~(required_fields \subseteq DOMAIN lastOp.args.json)

\* the status a create request asks for
BodyStatus(json) == json_get(json, "status", "pending")

C17_InvalidStatusOnCreate ==
    (CompleteCreate /\ ~Stored(lastOp.before, lastOp.args.json.order_id)
       /\ BodyStatus(lastOp.args.json) \notin valid_statuses) =>
        /\ lastOp.code = 400
        /\ orders = lastOp.before

\* C18 Update-status mapping: a status update with a new_status is answered 404
\* when the order is not stored, 400 when it is stored and new_status is not a
\* valid status, 200 with the updated record otherwise; one without new_status
\* is answered 400; the text of the order_id or of the status plays no part.
C18_UpdateMapping ==
    (lastOp.op = "update_order_status_api" /\ lastOp.args.is_json) =>
        IF "new_status" \notin DOMAIN lastOp.args.json
        THEN lastOp.code = 400 /\ orders = lastOp.before
        ELSE IF ~Stored(lastOp.before, lastOp.args.order_id)
        THEN lastOp.code = 404 /\ orders = lastOp.before
        ELSE IF lastOp.args.json.new_status \notin valid_statuses
        THEN lastOp.code = 400 /\ orders = lastOp.before
        ELSE /\ lastOp.code = 200
             /\ lastOp.body = Record(orders, lastOp.args.order_id)
             /\ lastOp.body.status = lastOp.args.json.new_status

\* no order with this id can be fetched from storage content o
NotFetchable(o, order_id) == get_order_api(o, order_id).code = 404

\* C19 Fetch and delete mapping: a fetch of a stored order_id is answered 200
\* with its record, of an id that is not stored 404; a delete of a stored
\* order_id is answered 204 and every fetch of the id is then answered 404 until
\* the order is created again; a delete of an id that is not stored is answered
\* 404 and changes nothing.
C19_FetchDeleteMapping ==
    /\ lastOp.op = "get_order_api" =>
        /\ orders = lastOp.before
        /\ IF Stored(lastOp.before, lastOp.args.order_id)
           THEN lastOp.code = 200
                    /\ lastOp.body = Record(lastOp.before, lastOp.args.order_id)
           ELSE lastOp.code = 404
    /\ lastOp.op = "delete_order_api" =>
        IF Stored(lastOp.before, lastOp.args.order_id)
        THEN lastOp.code = 204 /\ lastOp.body = ""
                 /\ NotFetchable(orders, lastOp.args.order_id)
        ELSE lastOp.code = 404 /\ orders = lastOp.before
    /\ \A id \in OrderIds :
        (NotFetchable(lastOp.before, id)
           /\ ~(lastOp.op = "add_order_api" /\ lastOp.code = 201
                  /\ lastOp.args.json.order_id = id))
            => NotFetchable(orders, id)

\* an order was deleted, the fetch that followed was answered 404, and another
\* order was still stored
C19_Witness ==
    /\ lastOp.op = "get_order_api"
    /\ lastOp.code = 404
    /\ Len(orders) = 1
    /\ orders[1].key # lastOp.args.order_id
    /\ orders[1].value.status = "shipped"

---------------------------------------------------------------------------
(* The container list_all_orders returns *)

KeyError == [KeyError |-> TRUE]

IndexError == [IndexError |-> TRUE]

\* the container is a dict (a non-empty sequence of key/value entries) rather
\* than a list of records
IsDict(c) == c # <<>> /\ \A i \in 1..Len(c) : DOMAIN c[i] = {"key", "value"}

\* c[k] for an integer k: a list is indexed by position from 0, a dict is
\* looked up by key, and no key of the storage (a string) equals an integer
getitem(c, k) ==
    IF IsDict(c) THEN KeyError
    ELSE IF k \in 0..(Len(c) - 1) THEN c[k + 1] ELSE IndexError

\* C20 list_all_orders returns an ordered sequence of the stored records,
\* addressable by the positions 0..n-1 like the result of
\* list_orders_by_status, with exactly one element per stored order.
C20_ListAllIsSequence ==
    LET all == list_all_orders(orders).ret
        n   == Len(orders)
    IN  /\ Len(all) = n
        /\ ~IsDict(all)
        /\ \A k \in 0..(n - 1) : getitem(all, k) \in {orders[i].value : i \in 1..n}
        /\ {getitem(all, k) : k \in 0..(n - 1)} = {orders[i].value : i \in 1..n}


---------------------------------------------------------------------------
(* Checks of add_order, shape of the stored records, other orders *)

\* C23 Order of checks in add_order: for an order_id that is stored and a
\* status outside the valid ones the call fails with DuplicateOrder, not
\* InvalidStatus; InvalidStatus is raised by add_order only for an order_id
\* that is not stored.
C23_AddCheckOrder ==
    lastOp.op = "add_order" =>
        /\ (Stored(lastOp.before, lastOp.args.order_id)
              /\ RequestedStatus(lastOp.args) \notin valid_statuses)
               => (DuplicateOrder(lastOp.raised) /\ ~InvalidStatus(lastOp.raised))
        /\ InvalidStatus(lastOp.raised) => ~Stored(lastOp.before, lastOp.args.order_id)

\* an add_order with an invalid status was refused with DuplicateOrder for a
\* stored order, next to another stored order
C23_Witness ==
    /\ lastOp.op = "add_order"
    /\ Stored(lastOp.before, lastOp.args.order_id)
    /\ lastOp.args.status = "delivered"
    /\ DuplicateOrder(lastOp.raised)
    /\ Len(orders) = 2

OrderFields == {"order_id", "item_name", "quantity", "customer_id", "status"}

\* C25 Key consistency: every stored record has exactly the fields order_id,
\* item_name, quantity, customer_id and status, the order_id of the record
\* stored under key k is k, and no two stored records have the same order_id.
C25_KeyConsistency ==
    /\ \A i \in 1..Len(orders) :
        /\ DOMAIN orders[i].value = OrderFields
        /\ orders[i].value.order_id = orders[i].key
    /\ \A i, j \in 1..Len(orders) :
        i # j => orders[i].value.order_id # orders[j].value.order_id

\* two orders of the same customer are stored under their own ids, the second
\* id of the pool saved first
C25_Witness ==
    /\ lastOp.op = "add_order"
    /\ Succeeded(lastOp)
    /\ Len(orders) = 2
    /\ orders[1].key = OrderIdPool[2]
    /\ orders[2].value.order_id = OrderIdPool[1]
    /\ orders[1].value.customer_id = orders[2].value.customer_id

\* C26 Frame on other orders: add_order, update_order_status and delete_order
\* on an order_id, successful or failing, leave the record of every other
\* order_id, or its absence, as it was.
C26_FrameOnOtherOrders ==
    lastOp.op \in Mutators =>
        \A b \in OrderIds \ {lastOp.args.order_id} :
            /\ Stored(orders, b) <=> Stored(lastOp.before, b)
            /\ Record(orders, b) = Record(lastOp.before, b)

\* an order was saved by a successful call while another order was stored
C26_Witness ==
    /\ lastOp.op \in {"add_order", "update_order_status"}
    /\ Succeeded(lastOp)
    /\ \E b \in OrderIds \ {lastOp.args.order_id} :
        /\ Stored(lastOp.before, b)
        /\ Record(orders, b).status = "processing"

---------------------------------------------------------------------------
(* Life of an order id: add_order, update_order_status and delete_order,    *)
(* with the record each id had when it was last deleted kept in lastOp.gone *)

ReuseIds == {OrderIdPool[1], OrderIdPool[2]}

ReuseStep(op, args, r) ==
    /\ orders' = r.orders
    /\ lastOp' = [op |-> op, args |-> args, before |-> orders,
                  raised |-> r.raised, ret |-> r.ret, calls |-> r.calls,
                  gone |-> IF op = "delete_order" /\ r.raised = NoError
                           THEN [lastOp.gone EXCEPT
                                   ![args.order_id] = Record(orders, args.order_id)]
                           ELSE lastOp.gone]
    /\ UNCHANGED <<heap, held, storage, frames>>

ReuseInit ==
    /\ orders = <<>>
    /\ lastOp = [op |-> "init", args |-> <<>>, before |-> <<>>,
                 raised |-> NoError, ret |-> None, calls |-> <<>>,
                 gone |-> [id \in ReuseIds |-> None]]
    /\ heap = <<>>
    /\ held = {}
    /\ frames = <<>>
    /\ storage = InMemoryStorage

ReuseAddOrder ==
    \E order_id \in ReuseIds, p \in Payloads, status \in StatusInputs \cup {Omitted} :
        ReuseStep("add_order",
                  [order_id |-> order_id, item_name |-> p.item_name,
                   quantity |-> p.quantity, customer_id |-> p.customer_id,
                   status |-> status],
                  add_order(orders, order_id, p.item_name, p.quantity,
                            p.customer_id, status))

ReuseUpdateOrderStatus ==
    \E order_id \in ReuseIds, new_status \in StatusInputs :
        ReuseStep("update_order_status",
                  [order_id |-> order_id, new_status |-> new_status],
                  update_order_status(orders, order_id, new_status))

ReuseDeleteOrder ==
    \E order_id \in ReuseIds :
        ReuseStep("delete_order", [order_id |-> order_id],
                  delete_order(orders, order_id))

ReuseNext ==
    \/ ReuseAddOrder
    \/ ReuseUpdateOrderStatus
    \/ ReuseDeleteOrder

SpecReuse == ReuseInit /\ [][ReuseNext]_vars

\* the record an add_order call with arguments args is to store
NewRecord(args) ==
    [order_id    |-> args.order_id,
     item_name   |-> args.item_name,
     quantity    |-> args.quantity,
     customer_id |-> args.customer_id,
     status      |-> RequestedStatus(args)]

\* C27 Identifier reuse after delete: an add_order with a valid (or omitted)
\* status for an order_id that was deleted and not added again since succeeds,
\* and the record stored for the id is made of the fields of this call alone,
\* the status being pending when omitted.
C27_ReuseAfterDelete ==
    (/\ lastOp.op = "add_order"
     /\ lastOp.gone[lastOp.args.order_id] # None
     /\ ~Stored(lastOp.before, lastOp.args.order_id)
     /\ RequestedStatus(lastOp.args) \in valid_statuses)
    => /\ Succeeded(lastOp)
       /\ Record(orders, lastOp.args.order_id) = NewRecord(lastOp.args)

\* a shipped order was deleted and its id added again without a status and for
\* another item: the stored record is pending and has the new item
C27_Witness ==
    /\ lastOp.op = "add_order"
    /\ Succeeded(lastOp)
    /\ ~Stored(lastOp.before, lastOp.args.order_id)
    /\ lastOp.gone[lastOp.args.order_id] # None
    /\ lastOp.gone[lastOp.args.order_id].status = "shipped"
    /\ lastOp.gone[lastOp.args.order_id].item_name # lastOp.args.item_name
    /\ lastOp.args.status = Omitted
    /\ Record(orders, lastOp.args.order_id).status = "pending"
    /\ Record(orders, lastOp.args.order_id).item_name = lastOp.args.item_name

---------------------------------------------------------------------------
(* Construction of the Tracker over any storage object.  A storage object   *)
(* is the table of its attributes: each method name the Tracker uses is a   *)
(* callable, an attribute that is not callable, or missing.  A callable     *)
(* behaves as the method of InMemoryStorage does.                           *)

AttributeKinds == {"callable", "not callable", "missing"}

StorageObjects == [StorageMethods -> AttributeKinds]

TypeError(prefix, value, suffix) ==
    [type |-> "TypeError", msg |-> <<prefix, value, suffix>>]

AttributeError(name) ==
    [type |-> "AttributeError",
     msg |-> <<"'Storage' object has no attribute '", name, "'">>]

required_methods == <<"save_order", "get_order", "get_all_orders">>

\* hasattr(storage, method) and callable(getattr(storage, method))
usable(obj, method) == obj[method] = "callable"

\* OrderTracker(storage): the object bound to self.storage (None when the
\* constructor raises) and the exception raised
__init__(obj) ==
    LET missing == {i \in 1..Len(required_methods) : ~usable(obj, required_methods[i])}
        first   == CHOOSE i \in missing : \A j \in missing : i <= j
    IN  IF missing # {}
        THEN [storage |-> None,
              raised  |-> TypeError("Storage object must implement a callable '",
                                    required_methods[first], "' method.")]
        ELSE [storage |-> obj, raised |-> NoError]

\* self.storage.<method>(...) on object obj: the exception of the call itself
attribute_call(obj, method) ==
    IF obj[method] = "missing" THEN AttributeError(method)
    ELSE IF obj[method] = "not callable"
    THEN TypeError("'", "str", "' object is not callable")
    ELSE NoError

\* a Tracker method run on storage object obj, r being its outcome over a
\* storage whose methods are all callable: the method stops at its first
\* storage call that cannot be made (every method writes in its last storage
\* call only, so nothing has been written by then)
through(obj, o, r) ==
    LET failing == {i \in 1..Len(r.calls) : attribute_call(obj, r.calls[i]) # NoError}
        first   == CHOOSE i \in failing : \A j \in failing : i <= j
    IN  IF failing = {} THEN r
        ELSE Outcome(o, attribute_call(obj, r.calls[first]), None,
                     SubSeq(r.calls, 1, first))

TrackerStep(op, args, r) ==
    /\ storage # None
    /\ orders' = through(storage, orders, r).orders
    /\ lastOp' = [op |-> op, args |-> args, before |-> orders,
                  raised |-> through(storage, orders, r).raised,
                  ret |-> through(storage, orders, r).ret,
                  calls |-> through(storage, orders, r).calls]
    /\ UNCHANGED <<heap, held, storage, frames>>

TrackerInit ==
    /\ orders = <<>>
    /\ lastOp = [op |-> "init", args |-> <<>>, before |-> <<>>,
                 raised |-> NoError, ret |-> None, calls |-> <<>>]
    /\ heap = <<>>
    /\ held = {}
    /\ frames = <<>>
    /\ storage = None

TrackerConstruct ==
    /\ storage = None
    /\ \E obj \in StorageObjects :
        /\ storage' = __init__(obj).storage
        /\ lastOp' = [op |-> "__init__", args |-> [storage |-> obj],
                      before |-> orders, raised |-> __init__(obj).raised,
                      ret |-> None, calls |-> <<>>]
    /\ UNCHANGED <<orders, heap, held, frames>>

TrackerAddOrder ==
    \E order_id \in OrderIds, p \in Payloads, status \in {Omitted, "shipped", "delivered"} :
        TrackerStep("add_order",
                    [order_id |-> order_id, item_name |-> p.item_name,
                     quantity |-> p.quantity, customer_id |-> p.customer_id,
                     status |-> status],
                    add_order(orders, order_id, p.item_name, p.quantity,
                              p.customer_id, status))

TrackerGetOrderById ==
    \E order_id \in OrderIds :
        TrackerStep("get_order_by_id", [order_id |-> order_id],
                    get_order_by_id(orders, order_id))

TrackerUpdateOrderStatus ==
    \E order_id \in OrderIds, new_status \in {"processing", "delivered"} :
        TrackerStep("update_order_status",
                    [order_id |-> order_id, new_status |-> new_status],
                    update_order_status(orders, order_id, new_status))

TrackerListAllOrders ==
    TrackerStep("list_all_orders", <<>>, list_all_orders(orders))

TrackerListOrdersByStatus ==
    \E status \in {"pending", "delivered"} :
        TrackerStep("list_orders_by_status", [status |-> status],
                    list_orders_by_status(orders, status))

TrackerDeleteOrder ==
    \E order_id \in OrderIds :
        TrackerStep("delete_order", [order_id |-> order_id],
                    delete_order(orders, order_id))

TrackerNext ==
    \/ TrackerConstruct
    \/ TrackerAddOrder
    \/ TrackerGetOrderById
    \/ TrackerUpdateOrderStatus
    \/ TrackerListAllOrders
    \/ TrackerListOrdersByStatus
    \/ TrackerDeleteOrder

SpecTracker == TrackerInit /\ [][TrackerNext]_vars

TrackerOperations ==
    {"add_order", "get_order_by_id", "update_order_status", "list_all_orders",
     "list_orders_by_status", "delete_order"}

\* the call failed because the storage object cannot run a method
MissingCapability(e) ==
    \/ e.type = "AttributeError"
    \/ e.type = "TypeError" /\ e.msg[3] = "' object is not callable"

\* C24 Constructor capability check: the construction of an OrderTracker
\* raises TypeError exactly when save_order, get_order, get_all_orders or
\* delete_order is not a callable of the storage object, and no operation of a
\* constructed Tracker fails for a storage method that cannot be called.
C24_ConstructorCapabilityCheck ==
    /\ lastOp.op = "__init__" =>
        (lastOp.raised.type = "TypeError"
            <=> \E m \in StorageMethods : ~usable(lastOp.args.storage, m))
    /\ lastOp.op \in TrackerOperations => ~MissingCapability(lastOp.raised)

---------------------------------------------------------------------------
(* Callers that interleave.  The Tracker and its storage are process-wide   *)
(* objects and no lock is taken, so between two storage calls of one        *)
(* Tracker method the storage calls of other callers may run.  A step is    *)
(* one storage call of one caller, with the code of the method up to its    *)
(* next storage call.                                                       *)

MaxCallers == 2

Callers == 1..MaxCallers

RaceIds == {OrderIdPool[1]}

\* add_order up to its call of save_order: the exception raised, or the order
\* it is about to save
add_order_check(o, order_id, item_name, quantity, customer_id, status_arg) ==
    LET status == IF status_arg = Omitted THEN "pending" ELSE status_arg
    IN  IF Truthy(get_order(o, order_id))
        THEN [raised |-> AlreadyExists(order_id), order |-> None]
        ELSE IF status \notin valid_statuses
        THEN [raised |-> NotValidStatus(status), order |-> None]
        ELSE [raised |-> NoError,
              order  |-> [order_id    |-> order_id,
                          item_name   |-> item_name,
                          quantity    |-> quantity,
                          customer_id |-> customer_id,
                          status      |-> status]]

\* update_order_status up to its call of save_order
\* update_order_status up to save_order, without the test of the status
update_order_status_check_unvalidated(o, order_id, new_status) ==
    LET order == get_order(o, order_id)
    IN  IF ~Truthy(order)
        THEN [raised |-> DoesNotExist(order_id), order |-> None]
        ELSE [raised |-> NoError, order |-> item_set(order, "status", new_status)]

update_order_status_check(o, order_id, new_status) ==
    LET order == get_order(o, order_id)
    IN  IF ~Truthy(order)
        THEN [raised |-> DoesNotExist(order_id), order |-> None]
        ELSE IF new_status \notin valid_statuses
        THEN [raised |-> NotValidStatus(new_status), order |-> None]
        ELSE [raised |-> NoError, order |-> item_set(order, "status", new_status)]

\* delete_order up to its call of storage.delete_order
delete_order_check(o, order_id) ==
    LET order == get_order(o, order_id)
    IN  IF ~Truthy(order)
        THEN [raised |-> DoesNotExist(order_id), order |-> None]
        ELSE [raised |-> NoError, order |-> order]

\* a caller that is in no call
Idle == [op |-> "none", args |-> <<>>, pc |-> "idle", order |-> None, raised |-> NoError]

\* caller c enters method op: its first storage call, get_order, and the code
\* up to the next storage call, which is next
RaceEnter(c, op, args, check, next) ==
    /\ frames[c].pc \in {"idle", "done"}
    /\ frames' = [frames EXCEPT ![c] =
                    [op |-> op, args |-> args,
                     pc |-> IF check.raised = NoError THEN next ELSE "done",
                     order |-> IF check.raised = NoError /\ next = "save_order"
                               THEN check.order ELSE None,
                     raised |-> check.raised]]
    /\ lastOp' = [caller |-> c, op |-> op, args |-> args, before |-> orders,
                  raised |-> check.raised, ret |-> None, calls |-> <<"get_order">>]
    /\ UNCHANGED <<orders, heap, held, storage>>

\* caller c makes the last storage call of its method and returns
RaceReturn(c, call, o) ==
    /\ orders' = o
    /\ frames' = [frames EXCEPT ![c] = [@ EXCEPT !.pc = "done", !.order = None]]
    /\ lastOp' = [caller |-> c, op |-> frames[c].op, args |-> frames[c].args,
                  before |-> orders, raised |-> NoError, ret |-> None,
                  calls |-> <<call>>]
    /\ UNCHANGED <<heap, held, storage>>

RaceInit ==
    /\ orders = <<>>
    /\ lastOp = [caller |-> 0, op |-> "init", args |-> <<>>, before |-> <<>>,
                 raised |-> NoError, ret |-> None, calls |-> <<>>]
    /\ heap = <<>>
    /\ held = {}
    /\ storage = InMemoryStorage
    /\ frames = [c \in Callers |-> Idle]

RaceAddOrderCheck ==
    \E c \in Callers, order_id \in RaceIds, p \in Payloads,
       status \in {Omitted, "delivered"} :
        RaceEnter(c, "add_order",
                  [order_id |-> order_id, item_name |-> p.item_name,
                   quantity |-> p.quantity, customer_id |-> p.customer_id,
                   status |-> status],
                  add_order_check(orders, order_id, p.item_name, p.quantity,
                                  p.customer_id, status),
                  "save_order")

RaceAddOrderSave ==
    \E c \in Callers :
        /\ frames[c].op = "add_order"
        /\ frames[c].pc = "save_order"
        /\ RaceReturn(c, "save_order",
                      save_order(orders, frames[c].args.order_id, frames[c].order))

RaceUpdateOrderStatusCheck ==
    \E c \in Callers, order_id \in RaceIds, new_status \in {"shipped", "delivered"} :
        RaceEnter(c, "update_order_status",
                  [order_id |-> order_id, new_status |-> new_status],
                  update_order_status_check(orders, order_id, new_status),
                  "save_order")

RaceUpdateOrderStatusSave ==
    \E c \in Callers :
        /\ frames[c].op = "update_order_status"
        /\ frames[c].pc = "save_order"
        /\ RaceReturn(c, "save_order",
                      save_order(orders, frames[c].args.order_id, frames[c].order))

RaceDeleteOrderCheck ==
    \E c \in Callers, order_id \in RaceIds :
        RaceEnter(c, "delete_order", [order_id |-> order_id],
                  delete_order_check(orders, order_id), "delete_order")

RaceDeleteOrderDelete ==
    \E c \in Callers :
        /\ frames[c].op = "delete_order"
        /\ frames[c].pc = "delete_order"
        /\ RaceReturn(c, "delete_order",
                      storage_delete_order(orders, frames[c].args.order_id))

RaceNext ==
    \/ RaceAddOrderCheck
    \/ RaceAddOrderSave
    \/ RaceUpdateOrderStatusCheck
    \/ RaceUpdateOrderStatusSave
    \/ RaceDeleteOrderCheck
    \/ RaceDeleteOrderDelete

SpecRace == RaceInit /\ [][RaceNext]_vars

\* caller c has returned from a successful call of op on order_id
Returned(c, op, order_id) ==
    /\ frames[c].op = op
    /\ frames[c].pc = "done"
    /\ frames[c].raised = NoError
    /\ frames[c].args.order_id = order_id

\* the last step was the storage call of method op by some caller
Stepped(op, call) == lastOp.op = op /\ lastOp.calls = <<call>>

\* C21 Race on add_order: when the save_order of an add_order runs on an
\* order_id under which another caller has stored a record since this
\* add_order made its existence check, the call succeeds without
\* DuplicateOrder and its record replaces the stored one; so two interleaved
\* add_order calls for one id both succeed and the record of the first to
\* save is lost.
C21_AddRace ==
    (Stepped("add_order", "save_order") /\ Stored(lastOp.before, lastOp.args.order_id))
    => /\ Succeeded(lastOp)
       /\ Returned(lastOp.caller, "add_order", lastOp.args.order_id)
       /\ Record(orders, lastOp.args.order_id) = NewRecord(lastOp.args)
       /\ Len(orders) = Len(lastOp.before)

\* two callers have returned from successful add_order calls for the same id
\* and different items, and the record stored is the one of the caller that
\* saved last, which replaced the record of the other
C21_Witness ==
    /\ Stepped("add_order", "save_order")
    /\ \E c \in Callers \ {lastOp.caller} :
        /\ Returned(c, "add_order", lastOp.args.order_id)
        /\ Returned(lastOp.caller, "add_order", lastOp.args.order_id)
        /\ frames[c].args.item_name # lastOp.args.item_name
        /\ Record(lastOp.before, lastOp.args.order_id) = NewRecord(frames[c].args)
        /\ Record(orders, lastOp.args.order_id) = NewRecord(lastOp.args)
        /\ Record(orders, lastOp.args.order_id) # NewRecord(frames[c].args)

\* C22 Race between update_order_status and delete_order: when the save_order
\* of an update_order_status runs after a delete_order has removed the order
\* since the update fetched it, the update succeeds and its save stores the
\* order again, with the new status; get_order then returns a record although
\* the delete_order succeeded.
C22_UpdateDeleteRace ==
    (Stepped("update_order_status", "save_order")
        /\ ~Stored(lastOp.before, lastOp.args.order_id))
    => /\ Succeeded(lastOp)
       /\ Returned(lastOp.caller, "update_order_status", lastOp.args.order_id)
       /\ Stored(orders, lastOp.args.order_id)
       /\ get_order(orders, lastOp.args.order_id) # None
       /\ get_order(orders, lastOp.args.order_id).status = lastOp.args.new_status

\* an update_order_status and a delete_order of the same order have both
\* returned without an exception, the order was not stored when the update
\* saved, and it is stored now
C22_Witness ==
    /\ Stepped("update_order_status", "save_order")
    /\ Returned(lastOp.caller, "update_order_status", lastOp.args.order_id)
    /\ \E c \in Callers \ {lastOp.caller} :
        Returned(c, "delete_order", lastOp.args.order_id)
    /\ lastOp.before = <<>>
    /\ get_order(orders, lastOp.args.order_id) # None
    /\ get_order(orders, lastOp.args.order_id).status = "shipped"

=============================================================================
